---- MODULE Spec2Model ----
(***************************************************************************)
(* Model of the Eeprom25aa02e48 driver (src/src/lib.rs).                   *)
(*                                                                         *)
(* The driver owns a SPI transceiver and a chip-select pin.  Every public  *)
(* operation is a linear transaction; the model follows one call at a     *)
(* time through its collaborator calls and records each call, with its    *)
(* arguments and outcome, in `calls`.  The collaborators are outside the  *)
(* repository: each of their calls nondeterministically succeeds or fails *)
(* with one of a few error values.                                        *)
(***************************************************************************)
EXTENDS Integers, Sequences, FiniteSets, TLC

VARIABLES
    pc,              \* position of the running call
    op,              \* public operation being executed
    address,         \* `address` argument (u8)
    len,             \* data.len() of the read buffer
    data,            \* `data` argument of write_byte (u8)
    page,            \* `data` argument of write_page ([u8; PAGE_SIZE])
    calls,           \* collaborator calls made by the running call, in order
    result,          \* the local `result` (outcome of the bus phase)
    returned,        \* value returned to the caller
    panic,           \* why the call panicked, if it did
    overflowChecks,  \* build option: are integer overflow checks compiled in
    cs,              \* level of the chip-select line ("low" selects the device)
    buf              \* what has happened to the caller's read buffer

vars == <<pc, op, address, len, data, page, calls, result, returned, panic,
          overflowChecks, cs, buf>>

----------------------------------------------------------------------------
(* Program constants *)

INSTRUCTION_READ == 3

INSTRUCTION_WRITE == 2

EUI48_BYTES == 6

EUI48_MEMORY_ADDRESS == 250

PAGE_SIZE == 16

MAX_ADDR == 255

\* usize::MAX; 16 bits is the narrowest usize Rust supports.
UsizeMax == 65535

----------------------------------------------------------------------------
(* Bounds and input domains *)

\* longest buffer handed to read_data
MaxLen == 3

Addresses == 0 .. 255

Lengths == 0 .. MaxLen

ByteValues == {0, 171, 255}

\* 16-byte payloads: ascending, descending from 0xFF, and constant
Pages ==
    { [i \in 1 .. PAGE_SIZE |-> i],
      [i \in 1 .. PAGE_SIZE |-> 256 - i],
      [i \in 1 .. PAGE_SIZE |-> 171] }

PinErrors == {"pin_e1", "pin_e2"}

SpiErrors == {"spi_e1", "spi_e2"}

\* what a collaborator call can answer
Outcomes(errors) ==
    {[ok |-> TRUE, err |-> "none"]} \cup {[ok |-> FALSE, err |-> e] : e \in errors}

----------------------------------------------------------------------------
(* Result<(), Error<SpiError, PinError>> *)

None == [tag |-> "None", err |-> "none"]

Ok == [tag |-> "Ok", err |-> "none"]

Spi(e) == [tag |-> "Spi", err |-> e]

Pin(e) == [tag |-> "Pin", err |-> e]

\* .map_err(Error::Pin) on the outcome of a pin call
map_err_Pin(o) == IF o.ok THEN Ok ELSE Pin(o.err)

\* .map_err(Error::Spi) on the outcome of the bus phase
map_err_Spi(o) == IF o.ok THEN Ok ELSE Spi(o.err)

----------------------------------------------------------------------------
(* Recorded collaborator calls *)

SetLow(o) == [call |-> "set_low", bytes |-> <<>>, len |-> 0, ok |-> o.ok, err |-> o.err]

SetHigh(o) == [call |-> "set_high", bytes |-> <<>>, len |-> 0, ok |-> o.ok, err |-> o.err]

Write(b, o) == [call |-> "write", bytes |-> b, len |-> Len(b), ok |-> o.ok, err |-> o.err]

Transfer(n, o) == [call |-> "transfer", bytes |-> <<>>, len |-> n, ok |-> o.ok, err |-> o.err]

\* level of the chip-select line after a pin call asking for `level`: a
\* call that succeeded has set it, a call that failed may or may not have
LineAfter(o, level) == IF o.ok THEN {level} ELSE {"high", "low"}

\* the read buffer after transfer: filled with the device's answer when
\* the call succeeded; a call that failed may or may not have written to it
BufferAfter(o) == IF o.ok THEN {"filled"} ELSE {"unchanged", "clobbered"}

----------------------------------------------------------------------------
(* Precondition checks and command frames *)

\* x - 1 on usize with wrapping arithmetic
usize_wrapping_dec(x) == (x + UsizeMax) % (UsizeMax + 1)

\* variant of read_data_assert: the sum is taken in u8 and wraps
read_data_assert_u8(a, l, checks) ==
    IF a + l = 0 /\ checks
    THEN "overflow"
    ELSE IF usize_wrapping_dec(a + l) % 256 <= MAX_ADDR THEN "pass" ELSE "assert"

\* variant of read_data_assert: the bound is one past MAX_ADDR
read_data_assert_lax(a, l, checks) ==
    IF a + l = 0 /\ checks
    THEN "overflow"
    ELSE IF usize_wrapping_dec(a + l) <= MAX_ADDR + 1 THEN "pass" ELSE "assert"

\* assert!(address as usize + data.len() - 1 <= MAX_ADDR):
\* "pass", or the panic it ends in.  The subtraction underflows when
\* address + data.len() = 0: a build with overflow checks panics on it, a
\* build without them wraps and goes on to evaluate the comparison.
read_data_assert(a, l, checks) ==
    IF a + l = 0 /\ checks
    THEN "overflow"
    ELSE IF usize_wrapping_dec(a + l) <= MAX_ADDR THEN "pass" ELSE "assert"

\* variant of write_page_assert: alignment to half a page
write_page_assert_half_page(a) ==
    IF a % ((PAGE_SIZE \div 2) % 256) = 0 THEN "pass" ELSE "assert"

\* assert!(address % PAGE_SIZE as u8 == 0)
write_page_assert(a) ==
    IF a % (PAGE_SIZE % 256) = 0 THEN "pass" ELSE "assert"

\* let cmd: [u8; 2] = [INSTRUCTION_READ, address]
read_data_cmd(a) == <<INSTRUCTION_READ, a>>

\* variant of write_byte_cmd: value before address
write_byte_cmd_swapped(a, d) == <<INSTRUCTION_WRITE, d, a>>

\* let cmd: [u8; 3] = [INSTRUCTION_WRITE, address, data]
write_byte_cmd(a, d) == <<INSTRUCTION_WRITE, a, d>>

\* variant of write_page_cmd: the read opcode
write_page_cmd_read(a) == <<INSTRUCTION_READ, a>>

\* let cmd: [u8; 2] = [INSTRUCTION_WRITE, address]
write_page_cmd(a) == <<INSTRUCTION_WRITE, a>>

----------------------------------------------------------------------------
(* The state machine *)

Init ==
    /\ pc = "idle"
    /\ op = "none"
    /\ address = 0
    /\ len = 0
    /\ data = 0
    /\ page = <<>>
    /\ calls = <<>>
    /\ result = None
    /\ returned = None
    /\ panic = "none"
    /\ overflowChecks \in BOOLEAN
    /\ cs = "high"
    /\ buf = "unchanged"

\* variant of Enter: chip-select is asserted before the precondition is
\* checked
Enter_select_first(check) ==
    /\ calls' = IF check = "pass" THEN <<>> ELSE <<SetLow([ok |-> TRUE, err |-> "none"])>>
    /\ cs' = IF check = "pass" THEN cs ELSE "low"
    /\ result' = None
    /\ returned' = None
    /\ panic' = IF check = "pass" THEN "none" ELSE check
    /\ pc' = IF check = "pass" THEN "enable" ELSE "panicked"
    /\ buf' = "unchanged"
    /\ UNCHANGED overflowChecks

\* entry of a call: the precondition check decides between going on to
\* chip_enable and panicking
Enter(check) ==
    /\ calls' = <<>>
    /\ result' = None
    /\ returned' = None
    /\ panic' = IF check = "pass" THEN "none" ELSE check
    /\ pc' = IF check = "pass" THEN "enable" ELSE "panicked"
    /\ buf' = "unchanged"
    /\ UNCHANGED <<overflowChecks, cs>>

\* read_data up to chip_enable, shared with read_eui48
read_data_entry(a, l) ==
    /\ address' = a
    /\ len' = l
    /\ data' = 0
    /\ page' = <<>>
    /\ Enter(read_data_assert(a, l, overflowChecks))

read_data(a, l) ==
    /\ pc = "idle"
    /\ op' = "read_data"
    /\ read_data_entry(a, l)

\* variant of write_byte: the frame is written without chip_enable
write_byte_no_enable(a, d) ==
    /\ pc = "idle"
    /\ op' = "write_byte"
    /\ address' = a
    /\ len' = 0
    /\ data' = d
    /\ page' = <<>>
    /\ calls' = <<>>
    /\ result' = None
    /\ returned' = None
    /\ pc' = "cmd"
    /\ buf' = "unchanged"
    /\ UNCHANGED <<panic, overflowChecks, cs>>

write_byte(a, d) ==
    /\ pc = "idle"
    /\ op' = "write_byte"
    /\ address' = a
    /\ len' = 0
    /\ data' = d
    /\ page' = <<>>
    /\ Enter("pass")

write_page(a, p) ==
    /\ pc = "idle"
    /\ op' = "write_page"
    /\ address' = a
    /\ len' = 0
    /\ data' = 0
    /\ page' = p
    /\ Enter(write_page_assert(a))

\* variant of read_eui48: a buffer one byte too long
read_eui48_long_buffer ==
    /\ pc = "idle"
    /\ op' = "read_eui48"
    /\ read_data_entry(EUI48_MEMORY_ADDRESS, EUI48_BYTES + 1)

read_eui48 ==
    /\ pc = "idle"
    /\ op' = "read_eui48"
    /\ read_data_entry(EUI48_MEMORY_ADDRESS, EUI48_BYTES)

\* variant of chip_enable: the outcome of set_low is dropped
chip_enable_ignore_error ==
    /\ pc = "enable"
    /\ \E o \in Outcomes(PinErrors) :
        /\ calls' = Append(calls, SetLow(o))
        /\ cs' \in LineAfter(o, "low")
    /\ pc' = "cmd"
    /\ UNCHANGED <<op, address, len, data, page, result, returned, panic, overflowChecks, buf>>

\* self.chip_enable()?  : set_low, and on failure return Error::Pin at once
chip_enable ==
    /\ pc = "enable"
    /\ \E o \in Outcomes(PinErrors) :
        /\ calls' = Append(calls, SetLow(o))
        /\ cs' \in LineAfter(o, "low")
        /\ IF o.ok
           THEN /\ pc' = "cmd"
                /\ UNCHANGED returned
           ELSE /\ pc' = "returned"
                /\ returned' = map_err_Pin(o)
    /\ UNCHANGED <<op, address, len, data, page, result, panic, overflowChecks, buf>>

\* variant of read_data_write: the error of the command write leaves
\* read_data at once, past chip_disable
read_data_write_early_return ==
    /\ pc = "cmd"
    /\ op \in {"read_data", "read_eui48"}
    /\ \E o \in Outcomes(SpiErrors) :
        /\ calls' = Append(calls, Write(read_data_cmd(address), o))
        /\ IF o.ok
           THEN /\ pc' = "data"
                /\ UNCHANGED <<result, returned>>
           ELSE /\ pc' = "returned"
                /\ result' = map_err_Spi(o)
                /\ returned' = map_err_Spi(o)
    /\ UNCHANGED <<op, address, len, data, page, panic, overflowChecks, cs, buf>>

\* variant of read_data_write: the transfer is made although the command
\* write failed
read_data_write_continue ==
    /\ pc = "cmd"
    /\ op \in {"read_data", "read_eui48"}
    /\ \E o \in Outcomes(SpiErrors) :
        /\ calls' = Append(calls, Write(read_data_cmd(address), o))
        /\ result' = IF o.ok THEN result ELSE map_err_Spi(o)
    /\ pc' = "data"
    /\ UNCHANGED <<op, address, len, data, page, returned, panic, overflowChecks, cs, buf>>

\* read_data: self.spi.write(&cmd)?  inside spi_functions
read_data_write ==
    /\ pc = "cmd"
    /\ op \in {"read_data", "read_eui48"}
    /\ \E o \in Outcomes(SpiErrors) :
        /\ calls' = Append(calls, Write(read_data_cmd(address), o))
        /\ IF o.ok
           THEN /\ pc' = "data"
                /\ UNCHANGED result
           ELSE /\ pc' = "disable"
                /\ result' = map_err_Spi(o)
    /\ UNCHANGED <<op, address, len, data, page, returned, panic, overflowChecks, cs, buf>>

\* variant of read_data_transfer: the error of transfer leaves read_data
\* at once, past chip_disable
read_data_transfer_early_return ==
    /\ pc = "data"
    /\ op \in {"read_data", "read_eui48"}
    /\ \E o \in Outcomes(SpiErrors) :
        /\ calls' = Append(calls, Transfer(len, o))
        /\ buf' \in BufferAfter(o)
        /\ result' = map_err_Spi(o)
        /\ IF o.ok
           THEN /\ pc' = "disable"
                /\ UNCHANGED returned
           ELSE /\ pc' = "returned"
                /\ returned' = map_err_Spi(o)
    /\ UNCHANGED <<op, address, len, data, page, panic, overflowChecks, cs>>

\* read_data: self.spi.transfer(data)?; Ok(())  inside spi_functions
read_data_transfer ==
    /\ pc = "data"
    /\ op \in {"read_data", "read_eui48"}
    /\ \E o \in Outcomes(SpiErrors) :
        /\ calls' = Append(calls, Transfer(len, o))
        /\ buf' \in BufferAfter(o)
        /\ result' = map_err_Spi(o)
    /\ pc' = "disable"
    /\ UNCHANGED <<op, address, len, data, page, returned, panic, overflowChecks, cs>>

\* write_byte: let result = self.spi.write(&cmd).map_err(Error::Spi)
write_byte_write ==
    /\ pc = "cmd"
    /\ op = "write_byte"
    /\ \E o \in Outcomes(SpiErrors) :
        /\ calls' = Append(calls, Write(write_byte_cmd(address, data), o))
        /\ result' = map_err_Spi(o)
    /\ pc' = "disable"
    /\ UNCHANGED <<op, address, len, data, page, returned, panic, overflowChecks, cs, buf>>

\* variant of write_page_write_cmd: the error of the command write leaves
\* write_page at once, past chip_disable
write_page_write_cmd_early_return ==
    /\ pc = "cmd"
    /\ op = "write_page"
    /\ \E o \in Outcomes(SpiErrors) :
        /\ calls' = Append(calls, Write(write_page_cmd(address), o))
        /\ IF o.ok
           THEN /\ pc' = "data"
                /\ UNCHANGED <<result, returned>>
           ELSE /\ pc' = "returned"
                /\ result' = map_err_Spi(o)
                /\ returned' = map_err_Spi(o)
    /\ UNCHANGED <<op, address, len, data, page, panic, overflowChecks, cs, buf>>

\* write_page: self.spi.write(&cmd)?  inside spi_functions
write_page_write_cmd ==
    /\ pc = "cmd"
    /\ op = "write_page"
    /\ \E o \in Outcomes(SpiErrors) :
        /\ calls' = Append(calls, Write(write_page_cmd(address), o))
        /\ IF o.ok
           THEN /\ pc' = "data"
                /\ UNCHANGED result
           ELSE /\ pc' = "disable"
                /\ result' = map_err_Spi(o)
    /\ UNCHANGED <<op, address, len, data, page, returned, panic, overflowChecks, cs, buf>>

\* variant of write_page_write_data: the outcome of the payload write is
\* dropped
write_page_write_data_ignore_error ==
    /\ pc = "data"
    /\ op = "write_page"
    /\ \E o \in Outcomes(SpiErrors) :
        /\ calls' = Append(calls, Write(page, o))
        /\ result' = Ok
    /\ pc' = "disable"
    /\ UNCHANGED <<op, address, len, data, page, returned, panic, overflowChecks, cs, buf>>

\* write_page: self.spi.write(&data)  inside spi_functions
write_page_write_data ==
    /\ pc = "data"
    /\ op = "write_page"
    /\ \E o \in Outcomes(SpiErrors) :
        /\ calls' = Append(calls, Write(page, o))
        /\ result' = map_err_Spi(o)
    /\ pc' = "disable"
    /\ UNCHANGED <<op, address, len, data, page, returned, panic, overflowChecks, cs, buf>>

\* variant of chip_disable: the outcome of set_high is dropped
chip_disable_ignore_error ==
    /\ pc = "disable"
    /\ \E o \in Outcomes(PinErrors) :
        /\ calls' = Append(calls, SetHigh(o))
        /\ cs' \in LineAfter(o, "high")
    /\ returned' = result
    /\ pc' = "returned"
    /\ UNCHANGED <<op, address, len, data, page, result, panic, overflowChecks, buf>>

\* variant of chip_disable: a captured bus error is returned before the
\* outcome of set_high is looked at
chip_disable_bus_error_first ==
    /\ pc = "disable"
    /\ \E o \in Outcomes(PinErrors) :
        /\ calls' = Append(calls, SetHigh(o))
        /\ cs' \in LineAfter(o, "high")
        /\ returned' = IF result.tag = "Spi" \/ o.ok THEN result ELSE map_err_Pin(o)
    /\ pc' = "returned"
    /\ UNCHANGED <<op, address, len, data, page, result, panic, overflowChecks, buf>>

\* self.chip_disable()?; result  : set_high, return Error::Pin if it
\* failed and the local `result` otherwise
chip_disable ==
    /\ pc = "disable"
    /\ \E o \in Outcomes(PinErrors) :
        /\ calls' = Append(calls, SetHigh(o))
        /\ cs' \in LineAfter(o, "high")
        /\ returned' = IF o.ok THEN result ELSE map_err_Pin(o)
    /\ pc' = "returned"
    /\ UNCHANGED <<op, address, len, data, page, result, panic, overflowChecks, buf>>

\* the call has returned and its borrow of the driver has ended: the
\* caller may make the next call
next_call ==
    /\ pc = "returned"
    /\ pc' = "idle"
    /\ op' = "none"
    /\ address' = 0
    /\ len' = 0
    /\ data' = 0
    /\ page' = <<>>
    /\ calls' = <<>>
    /\ result' = None
    /\ returned' = None
    /\ buf' = "unchanged"
    /\ UNCHANGED <<panic, overflowChecks, cs>>

Next ==
    \/ \E a \in Addresses, l \in Lengths : read_data(a, l)
    \/ \E a \in Addresses, d \in ByteValues : write_byte(a, d)
    \/ \E a \in Addresses, p \in Pages : write_page(a, p)
    \/ read_eui48
    \/ chip_enable
    \/ read_data_write
    \/ read_data_transfer
    \/ write_byte_write
    \/ write_page_write_cmd
    \/ write_page_write_data
    \/ chip_disable
    \/ next_call

Spec == Init /\ [][Next]_vars

----------------------------------------------------------------------------
(* Vocabulary of the properties *)

TypeOK ==
    /\ pc \in {"idle", "enable", "cmd", "data", "disable", "returned", "panicked"}
    /\ op \in {"none", "read_data", "write_byte", "write_page", "read_eui48"}
    /\ address \in Addresses
    /\ len \in Nat
    /\ data \in 0 .. 255
    /\ panic \in {"none", "assert", "overflow"}
    /\ overflowChecks \in BOOLEAN
    /\ cs \in {"high", "low"}
    /\ buf \in {"unchanged", "filled", "clobbered"}

IsBus(c) == c.call \in {"write", "transfer"}

\* the bus calls of the running call, in order
BusCalls == SelectSeq(calls, IsBus)

Count(name) == Cardinality({i \in DOMAIN calls : calls[i].call = name})

\* no collaborator call of the running call has failed
NoFailures == \A i \in DOMAIN calls : calls[i].ok

\* chip_enable was reached and set_low succeeded
EnableOk == calls # <<>> /\ calls[1].call = "set_low" /\ calls[1].ok

\* chip_enable was reached and set_low failed
EnableFailed == calls # <<>> /\ calls[1].call = "set_low" /\ ~calls[1].ok

OkOutcome == [ok |-> TRUE, err |-> "none"]

----------------------------------------------------------------------------
(* C1 *)

\* C1 as stated: whenever one of the four operations has returned, whatever
\* the outcomes of its collaborator calls were, set_high has been called.
C1_DeassertOnEveryReturn ==
    pc = "returned" => Count("set_high") >= 1

\* C1 amended: whenever an operation returns after a successful set_low,
\* whatever the outcomes of its bus calls and of set_high were, set_high is
\* the last collaborator call it made; an operation whose set_low failed
\* returns without having called set_high.
C1_DeassertAfterEnable ==
    pc = "returned" =>
        /\ EnableOk => calls[Len(calls)].call = "set_high"
        /\ EnableFailed => Count("set_high") = 0

\* a page write whose payload write failed has returned, deasserted
C1_Witness ==
    /\ pc = "returned"
    /\ op = "write_page"
    /\ Len(calls) = 4
    /\ calls[3].call = "write" /\ ~calls[3].ok
    /\ calls[4].call = "set_high"

----------------------------------------------------------------------------
(* C2 *)

\* C2: in an operation whose precondition holds and whose set_low succeeds,
\* set_low is called exactly once and set_high exactly once, set_low before
\* every bus call and set_high after every bus call, whether the bus calls
\* succeed or one of them (command or data phase) fails.
C2_SelectBracket ==
    /\ Count("set_low") <= 1
    /\ Count("set_high") <= 1
    /\ \A i \in DOMAIN calls :
          IsBus(calls[i]) =>
              /\ EnableOk
              /\ i > 1
              /\ \A j \in 1 .. i : calls[j].call # "set_high"
    /\ (pc = "returned" /\ EnableOk) =>
          /\ Count("set_low") = 1
          /\ Count("set_high") = 1
          /\ calls[Len(calls)].call = "set_high"
          /\ \A i \in 2 .. Len(calls) - 1 : IsBus(calls[i])

\* a read whose command write failed has returned: one set_low, one write,
\* one set_high
C2_Witness ==
    /\ pc = "returned"
    /\ op = "read_data"
    /\ EnableOk
    /\ Len(calls) = 3
    /\ calls[2].call = "write" /\ ~calls[2].ok
    /\ Count("set_low") = 1 /\ Count("set_high") = 1

----------------------------------------------------------------------------
(* C3 *)

\* C3: when a bus call has failed and the following set_high fails too, the
\* operation returns Error::Pin carrying the error of set_high, and the
\* captured bus error is not what the caller gets.
C3_DisableMasksBusError ==
    (/\ pc = "returned"
     /\ op \in {"read_data", "write_byte", "write_page"}
     /\ result.tag = "Spi"
     /\ ~calls[Len(calls)].ok)
    =>
        /\ calls[Len(calls)].call = "set_high"
        /\ returned = [tag |-> "Pin", err |-> calls[Len(calls)].err]
        /\ returned # result

\* read_data: the transfer failed, then set_high failed
C3_Witness ==
    /\ pc = "returned"
    /\ op = "read_data"
    /\ Len(calls) = 4
    /\ calls[3].call = "transfer" /\ ~calls[3].ok
    /\ calls[4].call = "set_high" /\ ~calls[4].ok
    /\ returned.tag = "Pin"

----------------------------------------------------------------------------
(* C4 *)

\* C4: when set_low fails, the operation has returned Error::Pin carrying
\* the error of set_low and has made no bus call: set_low is its only
\* collaborator call.
C4_EnableFailureAborts ==
    EnableFailed =>
        /\ pc = "returned"
        /\ returned = [tag |-> "Pin", err |-> calls[1].err]
        /\ Len(calls) = 1
        /\ BusCalls = <<>>

\* write_byte whose set_low failed with the second pin error
C4_Witness ==
    /\ pc = "returned"
    /\ op = "write_byte"
    /\ EnableFailed
    /\ calls[1].err = "pin_e2"
    /\ returned = [tag |-> "Pin", err |-> "pin_e2"]

----------------------------------------------------------------------------
(* C5 *)

\* C5: for every address a and buffer length l >= 0 with a + l - 1 <= 255,
\* read_data passes its precondition check and, when no collaborator call
\* fails, makes exactly one bus write of [0x03, a] and then exactly one
\* transfer of length l.
C5_ReadDataFrames ==
    (op = "read_data" /\ address + len - 1 <= 255) =>
        /\ pc # "panicked"
        /\ (pc = "returned" /\ NoFailures) =>
              BusCalls = << [call |-> "write", bytes |-> <<3, address>>, len |-> 2,
                             ok |-> TRUE, err |-> "none"],
                            [call |-> "transfer", bytes |-> <<>>, len |-> len,
                             ok |-> TRUE, err |-> "none"] >>

----------------------------------------------------------------------------
(* C6 *)

\* C6: for every address a and buffer length l with a + l - 1 > 255,
\* read_data panics on its assertion before any bus call and returns
\* neither Ok nor an error.
C6_ReadDataOutOfRangeAborts ==
    (op = "read_data" /\ address + len - 1 > 255) =>
        /\ pc = "panicked"
        /\ panic = "assert"
        /\ calls = <<>>
        /\ returned = None

\* read_data(0xFF, buffer of 2)
C6_Witness ==
    /\ op = "read_data"
    /\ address = 255
    /\ len = 2
    /\ pc = "panicked"

----------------------------------------------------------------------------
(* C7 *)

\* C7: write_page with an address that is not a multiple of 16 panics on
\* its assertion before any bus call; with a multiple of 16 the assertion
\* passes and the call goes on.
C7_WritePageAlignment ==
    op = "write_page" =>
        /\ address % 16 # 0 => (pc = "panicked" /\ panic = "assert" /\ calls = <<>>)
        /\ address % 16 = 0 => (pc # "panicked" /\ panic = "none")

\* write_page(0x08, ..) has panicked
C7_Witness ==
    /\ op = "write_page"
    /\ address = 8
    /\ pc = "panicked"
    /\ calls = <<>>

----------------------------------------------------------------------------
(* C8 *)

\* C8: write_page with a page-aligned address and no collaborator failure
\* makes exactly two bus writes: first [0x02, a], then the 16 payload bytes
\* as given, in a write of their own; it makes no transfer.
C8_WritePageFrames ==
    /\ (op = "write_page" /\ pc = "returned" /\ NoFailures) =>
          /\ Len(page) = 16
          /\ BusCalls = << [call |-> "write", bytes |-> <<2, address>>, len |-> 2,
                            ok |-> TRUE, err |-> "none"],
                           [call |-> "write", bytes |-> page, len |-> 16,
                            ok |-> TRUE, err |-> "none"] >>
    /\ op = "write_page" => Count("transfer") = 0

\* write_page(0x00, ascending payload) has returned Ok
C8_Witness ==
    /\ op = "write_page"
    /\ pc = "returned"
    /\ NoFailures
    /\ address = 0
    /\ page = [i \in 1 .. 16 |-> i]
    /\ returned = Ok
    /\ Len(BusCalls) = 2

----------------------------------------------------------------------------
(* C9 *)

\* C9: write_byte never panics on a precondition, whatever the address, and
\* once set_low has succeeded it makes exactly one bus call: a write of
\* [0x02, a, v].
C9_WriteByteFrame ==
    op = "write_byte" =>
        /\ pc # "panicked"
        /\ Len(BusCalls) <= 1
        /\ (pc \in {"disable", "returned"} /\ EnableOk) =>
              /\ Len(BusCalls) = 1
              /\ BusCalls[1].call = "write"
              /\ BusCalls[1].bytes = <<2, address, data>>

\* write_byte(0x10, 0xAB) has returned
C9_Witness ==
    /\ op = "write_byte"
    /\ pc = "returned"
    /\ address = 16
    /\ data = 171
    /\ Len(calls) = 3
    /\ calls[2].bytes = <<2, 16, 171>>

----------------------------------------------------------------------------
(* C10 *)

\* C10: read_eui48 runs read_data with address 0xFA and length 6: its
\* precondition check never fails, and when no collaborator call fails it
\* makes the bus write [0x03, 0xFA] and then exactly one 6-byte transfer.
C10_ReadEui48 ==
    op = "read_eui48" =>
        /\ address = 250
        /\ len = 6
        /\ pc # "panicked"
        /\ (pc = "returned" /\ NoFailures) =>
              BusCalls = << [call |-> "write", bytes |-> <<3, 250>>, len |-> 2,
                             ok |-> TRUE, err |-> "none"],
                            [call |-> "transfer", bytes |-> <<>>, len |-> 6,
                             ok |-> TRUE, err |-> "none"] >>

\* read_eui48 has returned Ok
C10_Witness ==
    /\ op = "read_eui48"
    /\ pc = "returned"
    /\ NoFailures
    /\ returned = Ok
    /\ Len(calls) = 4

----------------------------------------------------------------------------
(* C11 *)

\* the bus calls of the running call that failed
FailedBus == {i \in DOMAIN calls : IsBus(calls[i]) /\ ~calls[i].ok}

\* C11: in read_data, write_byte and write_page, when a bus call (command
\* or data/payload phase) has failed and set_high succeeds, the operation
\* returns Error::Spi carrying the error of the failed bus call, and it
\* returns only after set_high has been called.
C11_BusErrorAfterDeassert ==
    (/\ pc = "returned"
     /\ op \in {"read_data", "write_byte", "write_page"}
     /\ FailedBus # {})
    =>
        /\ calls[Len(calls)].call = "set_high"
        /\ calls[Len(calls)].ok =>
              \A i \in FailedBus : returned = [tag |-> "Spi", err |-> calls[i].err]

\* write_page: the payload write failed with the second bus error, set_high
\* succeeded
C11_Witness ==
    /\ pc = "returned"
    /\ op = "write_page"
    /\ Len(calls) = 4
    /\ calls[3].call = "write" /\ ~calls[3].ok /\ calls[3].err = "spi_e2"
    /\ calls[4].call = "set_high" /\ calls[4].ok
    /\ returned = [tag |-> "Spi", err |-> "spi_e2"]

----------------------------------------------------------------------------
(* C12 *)

\* the bus phase of the running call is complete and every bus call of it
\* succeeded
BusPhaseDone ==
    /\ EnableOk
    /\ FailedBus = {}
    /\ Len(BusCalls) = IF op = "write_byte" THEN 1 ELSE 2

\* C12: when all bus calls succeed but set_high fails, the operation
\* returns Error::Pin, not Ok, although the exchange is complete: the read
\* buffer has been filled, the write frames have been sent.
C12_DisableFailureAfterTransfer ==
    (/\ pc = "returned"
     /\ EnableOk
     /\ FailedBus = {}
     /\ ~calls[Len(calls)].ok)
    =>
        /\ calls[Len(calls)].call = "set_high"
        /\ returned = [tag |-> "Pin", err |-> calls[Len(calls)].err]
        /\ result = Ok
        /\ BusPhaseDone
        /\ op \in {"read_data", "read_eui48"} => buf = "filled"

\* read_data: write and transfer succeeded, the buffer is filled, set_high
\* failed
C12_Witness ==
    /\ pc = "returned"
    /\ op = "read_data"
    /\ len = 2
    /\ Len(calls) = 4
    /\ calls[2].ok /\ calls[3].call = "transfer" /\ calls[3].ok
    /\ ~calls[4].ok
    /\ buf = "filled"
    /\ returned.tag = "Pin"

----------------------------------------------------------------------------
(* C13 *)

\* the error a failed collaborator call would surface as
Surfaced(c) ==
    IF IsBus(c) THEN [tag |-> "Spi", err |-> c.err] ELSE [tag |-> "Pin", err |-> c.err]

\* C13: every error of a collaborator call made during an operation is the
\* result the operation returns, and no collaborator call is made again
\* after it failed.
C13_EveryErrorSurfaces ==
    /\ pc = "returned" =>
          \A i \in DOMAIN calls : ~calls[i].ok => returned = Surfaced(calls[i])
    /\ \A i \in DOMAIN calls : \A j \in DOMAIN calls :
          (i < j /\ ~calls[i].ok) =>
              ~(calls[j].call = calls[i].call /\ calls[j].bytes = calls[i].bytes
                /\ calls[j].len = calls[i].len)

----------------------------------------------------------------------------
(* C14 *)

\* the chip-select calls of the running call
IsPin(c) == c.call \in {"set_low", "set_high"}

\* no chip-select call of the running call has failed
NoPinFailure == \A i \in DOMAIN calls : IsPin(calls[i]) => calls[i].ok

\* C14 as stated: starting from a deselected line, the line is deselected
\* at every point between two operations, whatever the operations, their
\* arguments and the collaborator failures were.
C14_LineIdleBetweenOperations ==
    pc \in {"idle", "returned"} => cs = "high"

\* C14 amended: whatever the arguments, the bus failures and the level the
\* line had when the operation started, an operation in which no
\* chip-select call (set_low, set_high) failed returns with the line
\* deselected.
C14_LineIdleAfterOperation ==
    (pc = "returned" /\ NoPinFailure) => cs = "high"

\* read_data whose transfer failed has returned with the line deselected
C14_Witness ==
    /\ pc = "returned"
    /\ op = "read_data"
    /\ NoPinFailure
    /\ Len(calls) = 4
    /\ ~calls[3].ok
    /\ cs = "high"

----------------------------------------------------------------------------
(* C15 *)

\* C15: over any sequence of operations, every bus call (write or transfer)
\* is made after the successful set_low and before the set_high of the
\* same operation, with the line selected.
C15_BusCallsInsideBracket ==
    [][ (Len(calls') = Len(calls) + 1 /\ IsBus(calls'[Len(calls')])) =>
            /\ EnableOk
            /\ Count("set_high") = 0
            /\ cs = "low" ]_vars

\* write_page is between its two writes, the line selected
C15_Witness ==
    /\ pc = "data"
    /\ op = "write_page"
    /\ EnableOk
    /\ Len(BusCalls) = 1
    /\ Count("set_high") = 0
    /\ cs = "low"

----------------------------------------------------------------------------
(* C16 *)

\* the command write of the running call has failed
CommandFailed ==
    /\ Len(calls) >= 2
    /\ calls[2].call = "write"
    /\ ~calls[2].ok

\* C16: in read_data and write_page a failed command write skips the second
\* phase (no transfer, the caller's buffer unchanged; no payload write),
\* set_high is still called, and the caller gets Error::Spi just as when
\* the second phase failed.
C16_CommandFailureSkipsSecondPhase ==
    /\ (op \in {"read_data", "write_page"} /\ CommandFailed) =>
          /\ Len(BusCalls) = 1
          /\ buf = "unchanged"
          /\ pc \in {"disable", "returned"}
          /\ pc = "returned" =>
                /\ Len(calls) = 3
                /\ calls[3].call = "set_high"
    /\ (op \in {"read_data", "write_page"} /\ pc = "returned" /\ FailedBus # {}
        /\ calls[Len(calls)].ok) => returned.tag = "Spi"

\* read_data whose command write failed has returned Error::Spi
C16_Witness ==
    /\ pc = "returned"
    /\ op = "read_data"
    /\ len = 3
    /\ CommandFailed
    /\ Len(calls) = 3
    /\ buf = "unchanged"
    /\ returned.tag = "Spi"

----------------------------------------------------------------------------
(* C17 *)

\* number of data bytes the running operation accesses
AccessBytes ==
    CASE op = "read_data" -> len
      [] op = "write_byte" -> 1
      [] op = "write_page" -> 16
      [] op = "read_eui48" -> 6
      [] OTHER -> 0

\* C17: an operation that reaches the bus accesses only addresses up to
\* 0xFF: a + n - 1 <= 0xFF for the address of its command frame and its
\* number of data bytes; the alignment check alone gives a + 15 <= 0xFF for
\* every address write_page accepts.
C17_AccessInsideMemory ==
    /\ BusCalls # <<>> =>
          /\ BusCalls[1].bytes[2] = address
          /\ address + AccessBytes - 1 <= 255
    /\ (op = "write_page" /\ pc # "panicked") => address + 15 <= 255

\* read_data(0xFD, buffer of 3) has reached the bus
C17_Witness ==
    /\ op = "read_data"
    /\ address = 253
    /\ len = 3
    /\ Len(BusCalls) = 2

----------------------------------------------------------------------------
(* C18 *)

\* C18: a call of read_data or write_page that panics on its precondition
\* has made no collaborator call (no set_low, no set_high, no bus call) and
\* leaves the chip-select line as it found it.
C18_AbortBeforeSelect ==
    [][ pc' = "panicked" =>
            /\ op' \in {"read_data", "write_page"}
            /\ calls' = <<>>
            /\ cs' = cs
            /\ returned' = None ]_vars

\* write_page(0x11, ..) has panicked without a collaborator call
C18_Witness ==
    /\ pc = "panicked"
    /\ op = "write_page"
    /\ address = 17
    /\ calls = <<>>
    /\ cs = "high"
    /\ returned = None

====
